---- MODULE Spec2Model ----
(***************************************************************************)
(* A model of elo.py: Elo ratings derived by replaying a per-competition   *)
(* match log kept in a comma separated text file.                          *)
(*                                                                         *)
(* Python strings are sequences of one-character strings, so that the      *)
(* encoding of the log (join, write, readlines, strip, split) is computed  *)
(* character by character.  Python floats are held in fixed point: a       *)
(* rating r is the integer r * RatingScale, an expected score e is the     *)
(* integer e * ONE, and every operation rounds to the nearest unit.        *)
(***************************************************************************)
EXTENDS Integers, Sequences, FiniteSets, TLC

VARIABLES config, files, last, call, running

vars == <<config, files, last, call, running>>

(***************************************************************************)
(* Bounds of the model.                                                    *)
(***************************************************************************)
\* the longest history a command is started on
MaxLen == 3
\* the longest history a function called on its own leaves
MaxApiLen == 2
\* the longest history the persistence round trip is tried on
MaxRoundTrip == 2

(***************************************************************************)
(* Program constants.                                                      *)
(***************************************************************************)
ELO_INITIAL == 1000
K == 32
\* fixed-point units: ratings in 1/RatingScale points, scores in 1/ONE
RatingScale == 1000
ONE == 4096

\* config.get('default_competition', 'tt_singles')
DefaultCompetition == "tt_singles"
Competitions == {"tt_singles", "cup"}

\* player names given on the command line: non-empty, without separator
Names == {<<"a">>, <<"b">>, <<"c">>}
\* names given to the functions: those, and a name that starts with a space
ApiNames == Names \cup {<<" ", "a">>}

Whitespace == {" ", "\n", "\t"}

(***************************************************************************)
(* Python string and list primitives.                                      *)
(***************************************************************************)
\* the index of the first occurrence of ch in s, 0 when there is none
RECURSIVE IndexOf(_, _, _)
IndexOf(s, ch, i) ==
    IF i > Len(s) THEN 0
    ELSE IF s[i] = ch THEN i
    ELSE IndexOf(s, ch, i + 1)

\* f.readlines(): the lines of the text, each with its line terminator
RECURSIVE readlines(_)
readlines(text) ==
    IF text = <<>> THEN <<>>
    ELSE LET k == IndexOf(text, "\n", 1)
         IN  IF k = 0 THEN <<text>>
             ELSE <<SubSeq(text, 1, k)>> \o readlines(SubSeq(text, k + 1, Len(text)))

RECURSIVE lstrip(_)
lstrip(s) ==
    IF s # <<>> /\ Head(s) \in Whitespace THEN lstrip(Tail(s)) ELSE s

RECURSIVE rstrip(_)
rstrip(s) ==
    IF s # <<>> /\ s[Len(s)] \in Whitespace THEN rstrip(SubSeq(s, 1, Len(s) - 1)) ELSE s

\* str.strip()
strip(s) == rstrip(lstrip(s))

\* str.split(',')
RECURSIVE split(_)
split(s) ==
    LET k == IndexOf(s, ",", 1)
    IN  IF k = 0 THEN <<s>>
        ELSE <<SubSeq(s, 1, k - 1)>> \o split(SubSeq(s, k + 1, Len(s)))

\* ','.join(match)
RECURSIVE join(_)
join(match) ==
    IF match = <<>> THEN <<>>
    ELSE IF Len(match) = 1 THEN match[1]
    ELSE match[1] \o <<",">> \o join(Tail(match))

\* str(result) for a result of 0 or 1
str(result) == IF result = 0 THEN <<"0">> ELSE <<"1">>

DigitValue(ch) ==
    CASE ch = "0" -> 0 [] ch = "1" -> 1 [] ch = "2" -> 2 [] ch = "3" -> 3
      [] ch = "4" -> 4 [] ch = "5" -> 5 [] ch = "6" -> 6 [] ch = "7" -> 7
      [] ch = "8" -> 8 [] ch = "9" -> 9 [] OTHER -> -1

RECURSIVE DecimalValue(_, _)
DecimalValue(s, acc) ==
    IF s = <<>> THEN acc ELSE DecimalValue(Tail(s), 10 * acc + DigitValue(Head(s)))

\* int(s): [err, value]; a string that is no decimal number raises ValueError
int(s) ==
    LET t == strip(s)
    IN  IF t # <<>> /\ \A i \in 1..Len(t) : DigitValue(t[i]) >= 0
        THEN [err |-> "", value |-> DecimalValue(t, 0)]
        ELSE [err |-> "ValueError", value |-> 0]

(***************************************************************************)
(* The match history file.                                                 *)
(***************************************************************************)
MissingFile == [exists |-> FALSE, text |-> <<>>]

\* load_match_history: the records of the file, [] when there is no file
load_match_history(file) ==
    IF ~file.exists THEN <<>>
    ELSE LET lines == readlines(file.text)
         IN  [i \in 1..Len(lines) |-> split(strip(lines[i]))]

RECURSIVE HistoryText(_)
HistoryText(history) ==
    IF history = <<>> THEN <<>>
    ELSE join(Head(history)) \o <<"\n">> \o HistoryText(Tail(history))

\* save_match_history: the file is rewritten whole
save_match_history(history) == [exists |-> TRUE, text |-> HistoryText(history)]

(***************************************************************************)
(* Float arithmetic, in fixed point.                                       *)
(***************************************************************************)
\* a / b rounded to the nearest integer, for a >= 0 and b > 0
RoundDiv(a, b) == (2 * a + b) \div (2 * b)

\* 10 ** (2^(i-1) / (400 * RatingScale)) and 10 ** (-2^(i-1) / (400 * RatingScale)),
\* in units of 1/ONE, for i = 1..19
Pow10Up ==
    <<4096, 4096, 4096, 4096, 4096, 4097, 4098, 4099, 4102, 4108,
      4120, 4145, 4194, 4294, 4501, 4946, 5973, 8710, 18523>>
Pow10Down ==
    <<4096, 4096, 4096, 4096, 4096, 4095, 4094, 4093, 4090, 4084,
      4072, 4048, 4001, 3907, 3727, 3392, 2809, 1926, 906>>

RECURSIVE Pow10Bits(_, _, _, _)
Pow10Bits(x, i, p, table) ==
    IF x = 0 THEN p
    ELSE Pow10Bits(x \div 2, i + 1,
                   IF x % 2 = 1 THEN RoundDiv(p * table[i], ONE) ELSE p, table)

\* 10 ** (d / 400) for a rating difference d, in units of 1/ONE
Pow10(d) ==
    IF d >= 0 THEN Pow10Bits(d, 1, ONE, Pow10Up) ELSE Pow10Bits(-d, 1, ONE, Pow10Down)

\* 1 / (1 + 10 ** (d / 400)), in units of 1/ONE
ExpectedScore(d) == RoundDiv(ONE * ONE, ONE + Pow10(d))

\* K * (score - expected), in rating units
Gain(score, expected) ==
    LET v == K * RatingScale * (score * ONE - expected)
    IN  IF v >= 0 THEN RoundDiv(v, ONE) ELSE -RoundDiv(-v, ONE)

\* the two expected scores calculate_elo uses, each computed on its own
expected1(rating1, rating2) == ExpectedScore(rating2 - rating1)
expected2(rating1, rating2) == ExpectedScore(rating1 - rating2)

calculate_elo(rating1, rating2, result) ==
    <<rating1 + Gain(result, expected1(rating1, rating2)),
      rating2 + Gain(1 - result, expected2(rating1, rating2))>>

\* round(rating): to the nearest integer, a half to the even one
round(rating) ==
    LET q == rating \div RatingScale
        r == rating % RatingScale
    IN  IF 2 * r > RatingScale THEN q + 1
        ELSE IF 2 * r < RatingScale THEN q
        ELSE IF q % 2 = 0 THEN q ELSE q + 1

InitialRating == ELO_INITIAL * RatingScale

(***************************************************************************)
(* The replays.  A dict is a function on its keys; a lookup of a key that  *)
(* is absent raises KeyError, an index past the end raises IndexError.     *)
(***************************************************************************)
\* ratings[match[0]], ratings[match[1]] = calculate_elo(ratings[match[0]],
\*     ratings[match[1]], int(match[2])), the right-hand side evaluated first
ApplyMatch(ratings, match) ==
    IF Len(match) < 1 THEN [err |-> "IndexError", ratings |-> ratings]
    ELSE IF match[1] \notin DOMAIN ratings THEN [err |-> "KeyError", ratings |-> ratings]
    ELSE IF Len(match) < 2 THEN [err |-> "IndexError", ratings |-> ratings]
    ELSE IF match[2] \notin DOMAIN ratings THEN [err |-> "KeyError", ratings |-> ratings]
    ELSE IF Len(match) < 3 THEN [err |-> "IndexError", ratings |-> ratings]
    ELSE IF int(match[3]).err # "" THEN [err |-> "ValueError", ratings |-> ratings]
    ELSE LET new == calculate_elo(ratings[match[1]], ratings[match[2]], int(match[3]).value)
         IN  [err |-> "",
              ratings |-> [n \in DOMAIN ratings |->
                              IF n = match[2] THEN new[2]
                              ELSE IF n = match[1] THEN new[1]
                              ELSE ratings[n]]]

\* update_elo, lines 47-49: the ratings of name1 and name2 alone, every
\* record of the history applied
RECURSIVE UpdateEloLoop(_, _)
UpdateEloLoop(ratings, history) ==
    IF history = <<>> THEN [err |-> "", ratings |-> ratings]
    ELSE LET step == ApplyMatch(ratings, Head(history))
         IN  IF step.err # "" THEN step
             ELSE UpdateEloLoop(step.ratings, Tail(history))

UpdateEloReplay(history, name1, name2) ==
    UpdateEloLoop([n \in {name1, name2} |-> InitialRating], history)

\* [match[0] for match in history] and [match[1] for match in history]
Column(history, k) == {history[i][k] : i \in {j \in 1..Len(history) : Len(history[j]) >= k}}
ColumnFails(history, k) == \E i \in 1..Len(history) : Len(history[i]) < k

\* show_ranking, lines 69-72: every name of the history, the records with an
\* empty second field skipped
RECURSIVE ShowRankingLoop(_, _)
ShowRankingLoop(ratings, history) ==
    IF history = <<>> THEN [err |-> "", ratings |-> ratings]
    ELSE IF Head(history)[2] = <<>> THEN ShowRankingLoop(ratings, Tail(history))
    ELSE LET step == ApplyMatch(ratings, Head(history))
         IN  IF step.err # "" THEN step
             ELSE ShowRankingLoop(step.ratings, Tail(history))

ShowRankingReplay(history) ==
    IF ColumnFails(history, 1) \/ ColumnFails(history, 2)
    THEN [err |-> "IndexError", ratings |-> <<>>]
    ELSE ShowRankingLoop([n \in Column(history, 1) \cup Column(history, 2) |-> InitialRating],
                         history)

(***************************************************************************)
(* The operations on one competition's file.  Each yields the file it      *)
(* leaves, the exception that ended it ("" for none), what it returns or   *)
(* prints, and the number of times it wrote the file.                      *)
(***************************************************************************)
Unchanged(file, err) == [file |-> file, err |-> err, ret |-> <<>>, writes |-> 0]

update_elo(file, name1, name2, result) ==
    LET history == load_match_history(file)
        replay == UpdateEloReplay(history, name1, name2)
    IN  IF replay.err # "" THEN Unchanged(file, replay.err)
        ELSE [file |-> save_match_history(Append(history, <<name1, name2, str(result)>>)),
              err |-> "",
              ret |-> calculate_elo(replay.ratings[name1], replay.ratings[name2], result),
              writes |-> 1]

\* name not in [match[0] ...] and name not in [match[1] ...]
Unseen(history, name) ==
    IF ColumnFails(history, 1) THEN [err |-> "IndexError", value |-> FALSE]
    ELSE IF name \in Column(history, 1) THEN [err |-> "", value |-> FALSE]
    ELSE IF ColumnFails(history, 2) THEN [err |-> "IndexError", value |-> FALSE]
    ELSE [err |-> "", value |-> name \notin Column(history, 2)]

\* a variant that puts the marker record in front of the history
create_user_first(file, name) ==
    LET history == load_match_history(file)
        unseen == Unseen(history, name)
    IN  IF unseen.err # "" THEN Unchanged(file, unseen.err)
        ELSE IF ~unseen.value THEN Unchanged(file, "")
        ELSE [file |-> save_match_history(<<<<name, <<>>, <<"0">>>>>> \o history),
              err |-> "", ret |-> <<>>, writes |-> 1]

create_user(file, name) ==
    LET history == load_match_history(file)
        unseen == Unseen(history, name)
    IN  IF unseen.err # "" THEN Unchanged(file, unseen.err)
        ELSE IF ~unseen.value THEN Unchanged(file, "")
        ELSE [file |-> save_match_history(Append(history, <<name, <<>>, <<"0">>>>)),
              err |-> "", ret |-> <<>>, writes |-> 1]

\* a variant that removes the first record instead of the last
undo_first_match(file) ==
    LET history == load_match_history(file)
    IN  IF history = <<>> THEN Unchanged(file, "")
        ELSE [file |-> save_match_history(Tail(history)),
              err |-> "", ret |-> <<>>, writes |-> 1]

\* a variant without the test for an empty history: pop from an empty list
undo_unguarded(file) ==
    LET history == load_match_history(file)
    IN  IF history = <<>> THEN Unchanged(file, "IndexError")
        ELSE [file |-> save_match_history(SubSeq(history, 1, Len(history) - 1)),
              err |-> "", ret |-> <<>>, writes |-> 1]

undo_last_match(file) ==
    LET history == load_match_history(file)
    IN  IF history = <<>> THEN Unchanged(file, "")
        ELSE [file |-> save_match_history(SubSeq(history, 1, Len(history) - 1)),
              err |-> "", ret |-> <<>>, writes |-> 1]

\* the orders in which a set or dict of these keys may be iterated
IterationOrders(S) ==
    {p \in [1..Cardinality(S) -> S] : \A i, j \in 1..Cardinality(S) : i # j => p[i] # p[j]}

\* name put behind every entry of sorted whose rating is at least its own
RECURSIVE InsertDescending(_, _, _)
InsertDescending(sorted, name, ratings) ==
    IF sorted = <<>> THEN <<name>>
    ELSE IF ratings[Head(sorted)] >= ratings[name]
         THEN <<Head(sorted)>> \o InsertDescending(Tail(sorted), name, ratings)
         ELSE <<name>> \o sorted

\* sorted(ratings.items(), key=lambda x: x[1], reverse=True): a stable sort
RECURSIVE SortedDescending(_, _, _)
SortedDescending(order, ratings, sorted) ==
    IF order = <<>> THEN sorted
    ELSE SortedDescending(Tail(order), ratings, InsertDescending(sorted, Head(order), ratings))

\* the printed lines, as (name, rounded rating) pairs
RankingLines(order, ratings) ==
    LET sorted_ratings == SortedDescending(order, ratings, <<>>)
    IN  [i \in 1..Len(sorted_ratings) |->
            <<sorted_ratings[i], round(ratings[sorted_ratings[i]])>>]

\* show_ranking: every outcome it can have, one for each iteration order of
\* the set of names; max() of no names raises ValueError
show_ranking(file) ==
    LET history == load_match_history(file)
        replay == ShowRankingReplay(history)
    IN  IF replay.err # "" THEN {[err |-> replay.err, out |-> <<>>]}
        ELSE IF DOMAIN replay.ratings = {} THEN {[err |-> "ValueError", out |-> <<>>]}
        ELSE {[err |-> "", out |-> RankingLines(order, replay.ratings)] :
                 order \in IterationOrders(DOMAIN replay.ratings)}

(***************************************************************************)
(* The config file and main.                                               *)
(***************************************************************************)
\* load_config: {} when there is no config file
load_config == IF ~config.exists THEN {} ELSE config.data

\* a variant that does not look at the config
competition_unconfigured == DefaultCompetition

\* config.get('default_competition', 'tt_singles')
competition ==
    IF \E kv \in load_config : kv[1] = "default_competition"
    THEN (CHOOSE kv \in load_config : kv[1] = "default_competition")[2]
    ELSE DefaultCompetition

\* main, lines 99-104: both names registered when name1 is in no first field
\* and name2 in no second field, then update_elo
MatchCommand(file, name1, name2, result) ==
    LET history == load_match_history(file)
        register == IF ColumnFails(history, 1) THEN [err |-> "IndexError", value |-> FALSE]
                    ELSE IF name1 \in Column(history, 1) THEN [err |-> "", value |-> FALSE]
                    ELSE IF ColumnFails(history, 2) THEN [err |-> "IndexError", value |-> FALSE]
                    ELSE [err |-> "", value |-> name2 \notin Column(history, 2)]
        user1 == IF register.err # "" THEN Unchanged(file, register.err)
                 ELSE IF register.value THEN create_user(file, name1)
                 ELSE Unchanged(file, "")
        user2 == IF user1.err # "" \/ ~register.value THEN Unchanged(user1.file, user1.err)
                 ELSE create_user(user1.file, name2)
        update == IF user2.err # "" THEN Unchanged(user2.file, user2.err)
                  ELSE update_elo(user2.file, name1, name2, result)
    IN  [file |-> update.file, err |-> update.err, ret |-> update.ret,
         writes |-> user1.writes + user2.writes + update.writes]

NoCommand ==
    [cmd |-> "", comp |-> "", args |-> <<>>, err |-> "", out |-> <<>>, writes |-> 0,
     fresh |-> FALSE]

NoCall == [fn |-> "", in |-> <<>>, out |-> <<>>, stage |-> ""]

\* the invocations of main that may run at the same time
Invocations == {1, 2}

\* an invocation that has not started
NotStarted ==
    [pc |-> "idle", stage |-> "", name1 |-> <<>>, name2 |-> <<>>, result |-> 0,
     comp |-> "", history |-> <<>>, err |-> "", overlap |-> FALSE]

NoneRunning == [p \in Invocations |-> NotStarted]

Init ==
    /\ config = [exists |-> FALSE, data |-> {}]
    /\ files = [c \in Competitions |-> MissingFile]
    /\ last = NoCommand
    /\ running = NoneRunning
    /\ call = NoCall

\* the outcome of an operation on the file of competition c; fresh records
\* whether it started on an empty history
Ran(cmd, c, args, res) ==
    /\ files' = [files EXCEPT ![c] = res.file]
    /\ last' = [cmd |-> cmd, comp |-> c, args |-> args, err |-> res.err, out |-> res.ret,
                writes |-> res.writes, fresh |-> load_match_history(files[c]) = <<>>]

\* elo match name1 name2 result
Match(name1, name2, result) ==
    /\ Len(load_match_history(files[competition])) <= MaxLen
    /\ Ran("match", competition, <<name1, name2, result>>,
           MatchCommand(files[competition], name1, name2, result))
    /\ UNCHANGED <<config, call, running>>

\* elo undo
Undo ==
    /\ Ran("undo", competition, <<>>, undo_last_match(files[competition]))
    /\ UNCHANGED <<config, call, running>>

\* elo ranking
Ranking ==
    /\ \E res \in show_ranking(files[competition]) :
          Ran("ranking", competition, <<>>,
              [file |-> files[competition], err |-> res.err, ret |-> res.out, writes |-> 0])
    /\ UNCHANGED <<config, call, running>>

\* elo start name
Start(name) ==
    /\ config' = [exists |-> TRUE,
                  data |-> {kv \in load_config : kv[1] # "default_competition"}
                               \cup {<<"default_competition", name>>}]
    /\ last' = [NoCommand EXCEPT !.cmd = "start", !.comp = competition, !.args = <<name>>,
                                 !.fresh = load_match_history(files[competition]) = <<>>]
    /\ UNCHANGED <<files, call, running>>

Next ==
    \/ \E name1, name2 \in Names, result \in {0, 1} : Match(name1, name2, result)
    \/ Undo
    \/ Ranking
    \/ \E name \in Competitions : Start(name)

Spec == Init /\ [][Next]_vars

(***************************************************************************)
(* The functions called one by one, as a test or another caller does, on   *)
(* the competition that is active by default.                              *)
(***************************************************************************)
UpdateElo(c, name1, name2, result) ==
    /\ Len(load_match_history(files[c])) < MaxApiLen
    /\ Ran("update_elo", c, <<name1, name2, result>>,
           update_elo(files[c], name1, name2, result))
    /\ UNCHANGED <<config, call, running>>

CreateUser(c, name) ==
    /\ Len(load_match_history(files[c])) < MaxApiLen
    /\ Ran("create_user", c, <<name>>, create_user(files[c], name))
    /\ UNCHANGED <<config, call, running>>

UndoLastMatch(c) ==
    /\ Ran("undo_last_match", c, <<>>, undo_last_match(files[c]))
    /\ UNCHANGED <<config, call, running>>

ShowRanking(c) ==
    /\ \E res \in show_ranking(files[c]) :
          Ran("show_ranking", c, <<>>,
              [file |-> files[c], err |-> res.err, ret |-> res.out, writes |-> 0])
    /\ UNCHANGED <<config, call, running>>

NextApi ==
    \/ \E name1, name2 \in ApiNames, result \in {0, 1} :
          UpdateElo(DefaultCompetition, name1, name2, result)
    \/ \E name \in ApiNames : CreateUser(DefaultCompetition, name)
    \/ UndoLastMatch(DefaultCompetition)
    \/ ShowRanking(DefaultCompetition)

SpecApi == Init /\ [][NextApi]_vars

(***************************************************************************)
(* save_match_history followed by load_match_history, on every valid       *)
(* history up to MaxRoundTrip records.                                     *)
(***************************************************************************)
\* names without the separator: plain, with a space inside, with a space in front
RoundTripNames == {<<"a">>, <<"a", " ", "b">>, <<" ", "a">>}

ValidRecords ==
    {<<name1, name2, result>> :
        name1 \in RoundTripNames, name2 \in RoundTripNames \cup {<<>>},
        result \in {<<"0">>, <<"1">>}}

ValidHistories == UNION {[1..n -> ValidRecords] : n \in 0..MaxRoundTrip}

InitRoundTrip ==
    /\ config = [exists |-> FALSE, data |-> {}]
    /\ files = [c \in Competitions |-> MissingFile]
    /\ last = NoCommand
    /\ running = NoneRunning
    /\ \E history \in ValidHistories :
          call = [fn |-> "round_trip", in |-> history, out |-> <<>>, stage |-> "input"]

SaveMatchHistory ==
    /\ call.stage = "input"
    /\ files' = [files EXCEPT ![DefaultCompetition] = save_match_history(call.in)]
    /\ call' = [call EXCEPT !.stage = "saved"]
    /\ UNCHANGED <<config, last, running>>

LoadMatchHistory ==
    /\ call.stage = "saved"
    /\ call' = [call EXCEPT !.out = load_match_history(files[DefaultCompetition]),
                            !.stage = "loaded"]
    /\ UNCHANGED <<config, files, last, running>>

NextRoundTrip == SaveMatchHistory \/ LoadMatchHistory

SpecRoundTrip == InitRoundTrip /\ [][NextRoundTrip]_vars

(***************************************************************************)
(* calculate_elo on sample ratings.  On each of these inputs the fixed     *)
(* point computation and the float computation of elo.py agree on whether  *)
(* the two gains cancel and on whether the expected scores add up to 1.    *)
(***************************************************************************)
RatingSamples == {811, 845, 979, 1000, 1064, 1072, 1129}

InitElo ==
    /\ config = [exists |-> FALSE, data |-> {}]
    /\ files = [c \in Competitions |-> MissingFile]
    /\ last = NoCommand
    /\ running = NoneRunning
    /\ \E rating1, rating2 \in RatingSamples, result \in {0, 1} :
          call = [fn |-> "calculate_elo",
                  in |-> <<rating1 * RatingScale, rating2 * RatingScale, result>>,
                  out |-> <<>>, stage |-> "input"]

CalculateElo ==
    /\ call.stage = "input"
    /\ call' = [call EXCEPT !.out = calculate_elo(call.in[1], call.in[2], call.in[3]),
                            !.stage = "returned"]
    /\ UNCHANGED <<config, files, last, running>>

NextElo == CalculateElo

SpecElo == InitElo /\ [][NextElo]_vars

(***************************************************************************)
(* Invocations of the match command running at the same time.  An          *)
(* invocation takes one step for each read and each write it makes of the  *)
(* log: a load reads the whole file; a save opens it, which empties it,    *)
(* and writes the text when it closes it.  Nothing locks the file.         *)
(***************************************************************************)
\* names given to the invocations that run at the same time
RaceNames == {<<"a">>, <<"b">>}

\* open(history_path, 'w'): the file is created or emptied
OpenedFile == [exists |-> TRUE, text |-> <<>>]

\* a variant that writes behind what the file holds
WriteAtEnd(old, text) == old \o text

\* the buffered text written from the start of the file as it is at that
\* moment: what lies behind the written text stays
WriteAt(old, text) == text \o SubSeq(old, Len(text) + 1, Len(old))

Moved(p, pc, stage) ==
    running' = [running EXCEPT ![p].pc = pc, ![p].stage = stage]

Failed(p, err) ==
    running' = [running EXCEPT ![p].pc = "done", ![p].err = err]

\* main, lines 96-100: the arguments and the active competition
Invoke(p, name1, name2, result) ==
    /\ running[p].pc = "idle"
    /\ running' = [running EXCEPT ![p] =
                      [NotStarted EXCEPT !.pc = "check1", !.name1 = name1, !.name2 = name2,
                                         !.result = result, !.comp = competition]]
    /\ UNCHANGED <<config, files, last, call>>

\* main, line 101, left operand: name1 not in the first fields
CheckName1(p) ==
    /\ running[p].pc = "check1"
    /\ LET history == load_match_history(files[running[p].comp])
       IN  IF ColumnFails(history, 1) THEN Failed(p, "IndexError")
           ELSE IF running[p].name1 \in Column(history, 1) THEN Moved(p, "load", "update")
           ELSE Moved(p, "check2", "")
    /\ UNCHANGED <<config, files, last, call>>

\* main, line 101, right operand: name2 not in the second fields
CheckName2(p) ==
    /\ running[p].pc = "check2"
    /\ LET history == load_match_history(files[running[p].comp])
       IN  IF ColumnFails(history, 2) THEN Failed(p, "IndexError")
           ELSE IF running[p].name2 \in Column(history, 2) THEN Moved(p, "load", "update")
           ELSE Moved(p, "load", "name1")
    /\ UNCHANGED <<config, files, last, call>>

\* what follows create_user(name1), create_user(name2) and update_elo
NextStage(stage) ==
    IF stage = "name1" THEN [pc |-> "load", stage |-> "name2"]
    ELSE IF stage = "name2" THEN [pc |-> "load", stage |-> "update"]
    ELSE [pc |-> "done", stage |-> "update"]

\* create_user, lines 56-58: load, test, append the marker record
CreateUserLoad(p) ==
    /\ running[p].pc = "load" /\ running[p].stage \in {"name1", "name2"}
    /\ LET history == load_match_history(files[running[p].comp])
           name == IF running[p].stage = "name1" THEN running[p].name1 ELSE running[p].name2
           unseen == Unseen(history, name)
       IN  IF unseen.err # "" THEN Failed(p, unseen.err)
           ELSE IF ~unseen.value
                THEN Moved(p, NextStage(running[p].stage).pc, NextStage(running[p].stage).stage)
           ELSE running' = [running EXCEPT ![p].pc = "open",
                                           ![p].history = Append(history, <<name, <<>>, <<"0">>>>)]
    /\ UNCHANGED <<config, files, last, call>>

\* update_elo, lines 46-51: load, replay, append the contest record; overlap
\* records that the other invocation had loaded and not yet saved
UpdateEloLoad(p) ==
    /\ running[p].pc = "load" /\ running[p].stage = "update"
    /\ LET history == load_match_history(files[running[p].comp])
           replay == UpdateEloReplay(history, running[p].name1, running[p].name2)
       IN  IF replay.err # "" THEN Failed(p, replay.err)
           ELSE running' = [running EXCEPT
                    ![p].pc = "open",
                    ![p].history = Append(history, <<running[p].name1, running[p].name2,
                                                     str(running[p].result)>>),
                    ![p].overlap = \E q \in Invocations \ {p} :
                                      /\ running[q].stage = "update" /\ running[q].pc = "open"
                                      /\ running[q].comp = running[p].comp]
    /\ UNCHANGED <<config, files, last, call>>

\* save_match_history, lines 31-33: open for writing
OpenFile(p) ==
    /\ running[p].pc = "open"
    /\ files' = [files EXCEPT ![running[p].comp] = OpenedFile]
    /\ Moved(p, "write", running[p].stage)
    /\ UNCHANGED <<config, last, call>>

\* save_match_history, lines 34-35: the records written, the file closed
WriteFile(p) ==
    /\ running[p].pc = "write"
    /\ files' = [files EXCEPT ![running[p].comp].text =
                    WriteAt(@, HistoryText(running[p].history))]
    /\ Moved(p, NextStage(running[p].stage).pc, NextStage(running[p].stage).stage)
    /\ UNCHANGED <<config, last, call>>

\* update_elo called on its own on a new log, before any invocation starts:
\* the log the invocations find holds no record or one contest record
EarlierContest(name1, name2, result) ==
    /\ \A p \in Invocations : running[p].pc = "idle"
    /\ load_match_history(files[DefaultCompetition]) = <<>>
    /\ UpdateElo(DefaultCompetition, name1, name2, result)

NextRace ==
    \/ \E name1, name2 \in RaceNames, result \in {0, 1} : EarlierContest(name1, name2, result)
    \/ \E p \in Invocations, name1, name2 \in RaceNames, result \in {0, 1} :
          Invoke(p, name1, name2, result)
    \/ \E p \in Invocations : CheckName1(p)
    \/ \E p \in Invocations : CheckName2(p)
    \/ \E p \in Invocations : CreateUserLoad(p)
    \/ \E p \in Invocations : UpdateEloLoad(p)
    \/ \E p \in Invocations : OpenFile(p)
    \/ \E p \in Invocations : WriteFile(p)

SpecRace == Init /\ [][NextRace]_vars

(***************************************************************************)
(* Properties.                                                             *)
(***************************************************************************)
Marker(name) == <<name, <<>>, <<"0">>>>
Contest(name1, name2, result) == <<name1, name2, str(result)>>
IsMarker(match) == Len(match) >= 2 /\ match[2] = <<>>
MarkerCount(history, name) ==
    Cardinality({i \in 1..Len(history) : history[i] = Marker(name)})
Players(history) == Column(history, 1) \cup Column(history, 2)
WithoutMarkers(history) == SelectSeq(history, LAMBDA match : ~IsMarker(match))
History(c) == load_match_history(files[c])

\* C1: on a fresh competition the match command for two distinct names with
\* result 1 ends without error, leaves a history that ends with the contest
\* record (name1, name2, 1), and yields the ratings 1016 and 984.
C1_FreshMatchRecorded ==
    (last.cmd = "match" /\ last.fresh /\ last.args[1] # last.args[2] /\ last.args[3] = 1)
        => /\ last.err = ""
           /\ History(last.comp) # <<>>
           /\ History(last.comp)[Len(History(last.comp))]
                  = Contest(last.args[1], last.args[2], 1)
           /\ last.out = <<1016 * RatingScale, 984 * RatingScale>>

\* C2: on every history the commands reach, and for every pair of names, the
\* replay of update_elo does not fail and gives both names the ratings that
\* the full replay of show_ranking gives them (1000 for a name not in it).
C2_UpdateEloAgreesWithRanking ==
    \A c \in Competitions : \A name1, name2 \in Names :
        LET replay == UpdateEloReplay(History(c), name1, name2)
            full == ShowRankingReplay(History(c))
        IN  /\ replay.err = ""
            /\ full.err = ""
            /\ \A n \in {name1, name2} :
                  replay.ratings[n] = IF n \in DOMAIN full.ratings THEN full.ratings[n]
                                      ELSE InitialRating

\* C3: marker records alter no rating and fail no replay: on every history,
\* the replay of update_elo and the replay of show_ranking give what they
\* give on the history without its marker records.
C3_MarkersSkipped ==
    LET history == History(DefaultCompetition)
        contests == WithoutMarkers(history)
        full == ShowRankingReplay(history)
    IN  /\ full.err = ""
        /\ \A n \in Players(contests) : full.ratings[n] = ShowRankingReplay(contests).ratings[n]
        /\ \A name1, name2 \in ApiNames :
              UpdateEloReplay(contests, name1, name2).err = ""
                  => UpdateEloReplay(history, name1, name2)
                         = UpdateEloReplay(contests, name1, name2)

\* C4: undo is the inverse of the last append: for every history H and every
\* contest record update_elo appends to it, undo_last_match then leaves the
\* history H, and the ratings recomputed from it are those of H.
C4_UndoInverse ==
    \A name1, name2 \in ApiNames, result \in {0, 1} :
        LET file == files[DefaultCompetition]
            appended == update_elo(file, name1, name2, result)
            undone == undo_last_match(appended.file)
        IN  appended.err = ""
                => /\ undone.err = ""
                   /\ load_match_history(undone.file) = load_match_history(file)
                   /\ ShowRankingReplay(load_match_history(undone.file))
                          = ShowRankingReplay(load_match_history(file))

\* C4 witness: update_elo has appended a contest record to a non-empty history
C4_Witness ==
    /\ last.cmd = "update_elo" /\ last.err = "" /\ ~last.fresh
    /\ Len(History(last.comp)) >= 2
    /\ undo_last_match(files[last.comp]).writes = 1

\* C5: from a fresh competition, after match name1 name2 1 and then undo, the
\* ranking command lists exactly name1 and name2, each with rating 1000.
C5_MatchUndoRanking ==
    [][(/\ last.cmd = "match" /\ last.fresh
        /\ last.args[1] # last.args[2] /\ last.args[3] = 1
        /\ last'.cmd = "undo")
           => \A res \in show_ranking(files'[last'.comp]) :
                 /\ res.err = ""
                 /\ {res.out[i] : i \in 1..Len(res.out)}
                        = {<<last.args[1], ELO_INITIAL>>, <<last.args[2], ELO_INITIAL>>}
                 /\ Len(res.out) = 2]_vars

\* C6: registration is idempotent: create_user writes only when the name is
\* in no record, and then appends the one marker record of that name; a
\* second call with the same name changes nothing; and no history holds two
\* marker records of one name.
C6_RegistrationIdempotent ==
    LET history == History(DefaultCompetition)
    IN  /\ \A name \in ApiNames : MarkerCount(history, name) <= 1
        /\ (last.cmd = "create_user" /\ last.err = "")
              => /\ create_user(files[last.comp], last.args[1]).file = files[last.comp]
                 /\ last.args[1] \in Players(history)
                 /\ last.writes = 1
                       => /\ history[Len(history)] = Marker(last.args[1])
                          /\ last.args[1] \notin Players(SubSeq(history, 1, Len(history) - 1))

\* C7: the ranking command on a missing or empty history raises no error
\* and lists no player.
C7_EmptyRanking ==
    (last.cmd = "ranking" /\ History(last.comp) = <<>>)
        => (last.err = "" /\ last.out = <<>>)

\* C8: load_match_history after save_match_history returns the valid
\* history that was saved, record for record and field for field.
C8_RoundTrip ==
    call.stage = "loaded" => call.out = call.in

\* C9: two runs of the ranking command on the same history print the same
\* sequence of (name, rounded rating) pairs.
C9_RankingDeterministic ==
    [][(last.cmd = "ranking" /\ last'.cmd = "ranking" /\ last'.comp = last.comp
        /\ files' = files)
           => last'.out = last.out]_vars

\* C10: calculate_elo is a zero-sum transfer: the gain of one player is the
\* loss of the other, and the two expected scores add up to exactly 1.
C10_ZeroSum ==
    call.stage = "returned"
        => /\ call.out[1] - call.in[1] = -(call.out[2] - call.in[2])
           /\ expected1(call.in[1], call.in[2]) + expected2(call.in[1], call.in[2]) = ONE

\* the history of competition c before and after a step
IsPrefix(short, long) ==
    Len(short) <= Len(long) /\ SubSeq(long, 1, Len(short)) = short
Added(before, after) == SubSeq(after, Len(before) + 1, Len(after))

\* C11: a match command writes the log at most once, and the history it
\* leaves, whether it ends normally or by failure, is the history it found
\* or ends with the new contest record.
C11_MatchAtomic ==
    [][last'.cmd = "match"
          => LET before == load_match_history(files[last'.comp])
                 after == load_match_history(files'[last'.comp])
             IN  /\ last'.writes <= 1
                 /\ \/ after = before
                    \/ /\ after # <<>>
                       /\ after[Len(after)]
                              = Contest(last'.args[1], last'.args[2], last'.args[3])]_vars

\* C12: the match command appends a marker record of name1, and likewise of
\* name2, exactly when that name is in neither field of any record of the
\* history as loaded, whether or not the other name is known.
C12_AutoRegistration ==
    [][last'.cmd = "match"
          => LET before == load_match_history(files[last'.comp])
                 after == load_match_history(files'[last'.comp])
                 added == Added(before, after)
             IN  /\ IsPrefix(before, after)
                 /\ \A n \in {last'.args[1], last'.args[2]} :
                       (n \notin Players(before))
                           <=> (\E i \in 1..Len(added) : added[i] = Marker(n))]_vars

\* C14: undo_last_match raises no error; on a non-empty history it writes
\* the history without its final record, marker or contest, every earlier
\* record and line as it was; on an empty or missing history it writes
\* nothing and the file stays as it is.
C14_UndoRemovesOne ==
    [][last'.cmd = "undo_last_match"
          => LET before == load_match_history(files[last'.comp])
                 after == load_match_history(files'[last'.comp])
             IN  /\ last'.err = ""
                 /\ before = <<>> => (files' = files /\ last'.writes = 0)
                 /\ before # <<>>
                       => /\ after = SubSeq(before, 1, Len(before) - 1)
                          /\ IsPrefix(files'[last'.comp].text, files[last'.comp].text)
                          /\ last'.writes = 1]_vars

\* C14 witness: undo_last_match has removed the final record of a history
\* of two records, and the first of them is left
C14_Witness ==
    /\ last.cmd = "undo_last_match" /\ last.writes = 1 /\ last.err = ""
    /\ Len(History(last.comp)) = 1

\* the active competition, read from the config file
Configured ==
    IF config.exists /\ \E name \in Competitions : <<"default_competition", name>> \in config.data
    THEN CHOOSE name \in Competitions : <<"default_competition", name>> \in config.data
    ELSE "tt_singles"

\* C16: the start command sets default_competition in the config to its
\* argument and changes no history; a match or undo command works on the
\* active competition ('tt_singles' when none is configured) and changes
\* neither the history of another competition nor the config.
C16_CompetitionsIndependent ==
    [][/\ last'.cmd = "start"
             => /\ files' = files
                /\ config'.exists
                /\ {kv \in config'.data : kv[1] = "default_competition"}
                       = {<<"default_competition", last'.args[1]>>}
                /\ {kv \in config'.data : kv[1] # "default_competition"}
                       = {kv \in load_config : kv[1] # "default_competition"}
       /\ last'.cmd \in {"match", "undo"}
             => /\ last'.comp = Configured
                /\ config' = config
                /\ \A c \in Competitions \ {Configured} : files'[c] = files[c]]_vars

\* C16 witness: a match command has written the history of a competition
\* chosen by start, while the default competition holds a history of its own
C16_Witness ==
    /\ last.cmd = "match" /\ last.comp = "cup" /\ last.writes >= 1
    /\ History("tt_singles") # <<>>
    /\ History("cup") # History("tt_singles")

\* C13: the log is append-only: every write of update_elo, create_user and
\* undo_last_match, the writes the commands are made of, leaves the history
\* it found with records added at its end, or without its final record; a
\* step that writes no file leaves every history as it is.
C13_AppendOnly ==
    [][\A c \in Competitions :
          LET before == load_match_history(files[c])
              after == load_match_history(files'[c])
          IN  \/ files'[c] = files[c]
              \/ IsPrefix(before, after)
              \/ before # <<>> /\ after = SubSeq(before, 1, Len(before) - 1)]_vars

\* C13 witness: create_user has appended a marker record to a history that
\* held a record already
C13_Witness ==
    /\ last.cmd = "create_user" /\ last.writes = 1
    /\ Len(History(last.comp)) >= 2
    /\ History(last.comp)[Len(History(last.comp))] = Marker(strip(last.args[1]))

\* the contest record invocation p appends
ContestOf(p) == Contest(running[p].name1, running[p].name2, running[p].result)

\* both invocations have ended normally, and both had loaded the history in
\* update_elo before either began to save it
BothEndedAfterOverlap ==
    /\ \A p \in Invocations :
          /\ running[p].pc = "done" /\ running[p].err = ""
          /\ running[p].comp = DefaultCompetition
    /\ \E p \in Invocations : running[p].overlap

\* C15: nothing locks the log: when two match invocations have both loaded
\* the history before either saves it and both have ended normally, the
\* history on file is what one of them saved, the history both loaded with
\* the contest record of that one alone; the record of the other is lost.
C15_LostUpdate ==
    BothEndedAfterOverlap
        => LET history == History(DefaultCompetition)
               loaded == SubSeq(history, 1, Len(history) - 1)
           IN  /\ \E p \in Invocations : history = Append(loaded, ContestOf(p))
               /\ \A p \in Invocations : running[p].history = Append(loaded, ContestOf(p))

\* C15 witness: two invocations with different contest records, different
\* from the record the log held, have both ended normally after such an
\* overlap, and the record of one is not on file
C15_Witness ==
    /\ BothEndedAfterOverlap
    /\ ContestOf(1) # ContestOf(2)
    /\ \A p \in Invocations : running[p].name1 # running[p].name2
    /\ Len(History(DefaultCompetition)) = 2
    /\ \A p \in Invocations : History(DefaultCompetition)[1] # ContestOf(p)
    /\ \E p \in Invocations :
          \A i \in 1..Len(History(DefaultCompetition)) :
             History(DefaultCompetition)[i] # ContestOf(p)

====
